---- MODULE Spec2Model ----
(***************************************************************************)
(* A model of embedded-test-framework/scripts/rtt_monitor.py: the RTT      *)
(* line parser (parse_rtt_line), the success evaluator                     *)
(* (check_success_condition), the monitoring loop (monitor_until_success)  *)
(* with its teardown (stop_monitoring), the report of save_results, and    *)
(* the probe-bridge process the loop reads from.                           *)
(*                                                                         *)
(* Lines are TLA+ strings and the four regular expressions are evaluated   *)
(* character by character, as re.search evaluates them.                    *)
(***************************************************************************)
EXTENDS Integers, Sequences, FiniteSets, TLC

VARIABLES
    test_results,   \* self.test_results: test name -> TestResult
    log_buffer,     \* self.log_buffer: sequence of {timestamp, raw}
    process,        \* self.process and the state of the child: "none", "alive", "exited"
    emitted,        \* every line the probe bridge has written to its stdout so far
    nread,          \* how many of them readline() has returned
    pc,             \* where monitor_until_success stands
    outcome,        \* the terminal state the run reached, "none" before
    start_time,     \* local start_time
    summary_data,   \* local summary_data
    retval,         \* what monitor_until_success returned
    stop_calls,     \* how many times stop_monitoring ran
    killed,         \* whether stop_monitoring had to kill() the child
    now,            \* the wall clock (time.time(), datetime.now())
    call            \* the last call made on the monitor and what it returned

vars == <<test_results, log_buffer, process, emitted, nread, pc, outcome,
          start_time, summary_data, retval, stop_calls, killed, now, call>>

(***************************************************************************)
(* Bounds of the model.                                                    *)
(***************************************************************************)
MaxTime == 2        \* the clock runs 0..MaxTime, from the moment the run starts
MaxEmit == 3        \* lines the probe bridge writes in one run
MaxCalls == 4       \* direct calls on the monitor in ApiSpec

\* timeout_seconds, the argument of monitor_until_success, in clock ticks
TimeoutTicks == 1

\* An Optional value: None is the empty sequence, a present value x is <<x>>
None == <<>>
Some(x) == <<x>>

\* re.search returned None; a match is a record with matched |-> TRUE and its groups
NoMatch == [matched |-> FALSE]

(***************************************************************************)
(* Characters and character classes.                                       *)
(***************************************************************************)
Ch(s, i) == SubSeq(s, i, i)

Chars(s) == {Ch(s, i) : i \in 1..Len(s)}

DigitChars == {"0", "1", "2", "3", "4", "5", "6", "7", "8", "9"}

\* \w on the ASCII range
WordChars ==
    DigitChars \cup {"_"} \cup
    {"a", "b", "c", "d", "e", "f", "g", "h", "i", "j", "k", "l", "m",
     "n", "o", "p", "q", "r", "s", "t", "u", "v", "w", "x", "y", "z",
     "A", "B", "C", "D", "E", "F", "G", "H", "I", "J", "K", "L", "M",
     "N", "O", "P", "Q", "R", "S", "T", "U", "V", "W", "X", "Y", "Z"}

\* what str.strip() removes
SpaceChars == {" ", "\t", "\n", "\r", "\f"}

\* what "." matches in s: every character but the newline
DotChars(s) == Chars(s) \ {"\n"}

SetMax(S) == CHOOSE m \in S : \A k \in S : k <= m
SetMin(S) == CHOOSE m \in S : \A k \in S : m <= k

\* the length of the longest run of characters of class C that starts at s[i]
\* (a greedy C+ or C*)
Span(s, i, C) ==
    SetMax({k \in 0..(IF i > Len(s) THEN 0 ELSE Len(s) - i + 1) :
               \A m \in i..(i + k - 1) : Ch(s, m) \in C})

\* the literal lit stands at s[i]
LitAt(s, i, lit) ==
    /\ i >= 1
    /\ i + Len(lit) - 1 <= Len(s)
    /\ SubSeq(s, i, i + Len(lit) - 1) = lit

\* str.strip()
Strip(s) ==
    LET keep == {i \in 1..Len(s) : Ch(s, i) \notin SpaceChars}
    IN  IF keep = {} THEN "" ELSE SubSeq(s, SetMin(keep), SetMax(keep))

\* int() of a string of decimal digits
DigitVal(c) == CHOOSE n \in 0..9 : Ch("0123456789", n + 1) = c

RECURSIVE IntOf(_)
IntOf(s) ==
    IF Len(s) = 0 THEN 0
    ELSE 10 * IntOf(SubSeq(s, 1, Len(s) - 1)) + DigitVal(Ch(s, Len(s)))

(***************************************************************************)
(* The four patterns of __init__, as re.search applies them: the leftmost  *)
(* position where the pattern matches, greedy quantifiers.                 *)
(***************************************************************************)

\* STATUS:(\w+):(.+) tried at position i
StatusAt(s, i) ==
    LET t == i + 7
        w == Span(s, t, WordChars)
        c == t + w
        d == Span(s, c + 1, DotChars(s))
    IN  IF LitAt(s, i, "STATUS:") /\ w >= 1 /\ LitAt(s, c, ":") /\ d >= 1
        THEN [matched |-> TRUE, token |-> SubSeq(s, t, c - 1), name |-> SubSeq(s, c + 1, c + d)]
        ELSE NoMatch

status_pattern(s) ==
    LET at == {i \in 1..Len(s) : StatusAt(s, i).matched}
    IN  IF at = {} THEN NoMatch ELSE StatusAt(s, SetMin(at))

\* RESULT:(.+):(PASS|FAIL):(\d+) tried at position i: the greedy (.+) ends at
\* the last place from which the rest of the pattern still matches
ResultTailAt(s, e) ==
    /\ LitAt(s, e + 1, ":PASS:") \/ LitAt(s, e + 1, ":FAIL:")
    /\ Span(s, e + 7, DigitChars) >= 1

ResultAt(s, i) ==
    LET n0 == i + 7
        d == Span(s, n0, DotChars(s))
        ends == {e \in n0..(n0 + d - 1) : ResultTailAt(s, e)}
    IN  IF LitAt(s, i, "RESULT:") /\ ends # {}
        THEN LET e == SetMax(ends)
             IN  [matched |-> TRUE, name |-> SubSeq(s, n0, e),
                  result |-> SubSeq(s, e + 2, e + 5),
                  duration |-> SubSeq(s, e + 7, e + 6 + Span(s, e + 7, DigitChars))]
        ELSE NoMatch

result_pattern(s) ==
    LET at == {i \in 1..Len(s) : ResultAt(s, i).matched}
    IN  IF at = {} THEN NoMatch ELSE ResultAt(s, SetMin(at))

\* SUMMARY:(\d+):(\d+):(\d+) tried at position i
SummaryAt(s, i) ==
    LET a == i + 8
        wa == Span(s, a, DigitChars)
        b == a + wa + 1
        wb == Span(s, b, DigitChars)
        c == b + wb + 1
        wc == Span(s, c, DigitChars)
    IN  IF /\ LitAt(s, i, "SUMMARY:")
           /\ wa >= 1 /\ LitAt(s, a + wa, ":")
           /\ wb >= 1 /\ LitAt(s, b + wb, ":")
           /\ wc >= 1
        THEN [matched |-> TRUE, total |-> SubSeq(s, a, a + wa - 1),
              passed |-> SubSeq(s, b, b + wb - 1),
              failed |-> SubSeq(s, c, c + wc - 1)]
        ELSE NoMatch

summary_pattern(s) ==
    LET at == {i \in 1..Len(s) : SummaryAt(s, i).matched}
    IN  IF at = {} THEN NoMatch ELSE SummaryAt(s, SetMin(at))

\* \[(\d+)\] \[(\w+)\] (.+) tried at position i
LogAt(s, i) ==
    LET a == i + 1
        wa == Span(s, a, DigitChars)
        b == a + wa + 3
        wb == Span(s, b, WordChars)
        c == b + wb + 2
        wc == Span(s, c, DotChars(s))
    IN  IF /\ LitAt(s, i, "[")
           /\ wa >= 1 /\ LitAt(s, a + wa, "] [")
           /\ wb >= 1 /\ LitAt(s, b + wb, "] ")
           /\ wc >= 1
        THEN [matched |-> TRUE, timestamp |-> SubSeq(s, a, a + wa - 1),
              level |-> SubSeq(s, b, b + wb - 1),
              message |-> SubSeq(s, c, c + wc - 1)]
        ELSE NoMatch

log_pattern(s) ==
    LET at == {i \in 1..Len(s) : LogAt(s, i).matched}
    IN  IF at = {} THEN NoMatch ELSE LogAt(s, SetMin(at))

(***************************************************************************)
(* TestStatus, TestResult and the registry.                                *)
(***************************************************************************)

\* the values of the TestStatus enumeration
TestStatus == {"TEST_INIT", "TEST_RUNNING", "TEST_PASS", "TEST_FAIL", "TEST_COMPLETE"}

\* TestResult(name, status), created at clock value t
TestResult(name, status, t) ==
    [name |-> name, status |-> status, duration_ms |-> None,
     timestamp |-> t, log_messages |-> <<>>]

\* d[k] = v on a dict
Put(d, k, v) == [n \in DOMAIN d \cup {k} |-> IF n = k THEN v ELSE d[n]]

\* the empty dict
EmptyDict == [n \in {} |-> None]

(***************************************************************************)
(* The lines of the model.                                                 *)
(***************************************************************************)

\* what the probe bridge may write to its stdout, one line at a time
ProbeLines ==
    {"STATUS:TEST_INIT:t1\n", "STATUS:TEST_RUNNING:t1\n", "STATUS:TEST_PASS:t1\n",
     "STATUS:BOGUS:t1\n", "SUMMARY:1:1:0\n", "SUMMARY:2:1:1\n"}

\* what parse_rtt_line is called with directly
ApiLines ==
    {"STATUS:TEST_INIT:t1", "STATUS:TEST_PASS:t1\n", "STATUS:TEST_COMPLETE:t2",
     "STATUS:BOGUS:t1", "RESULT:t1:PASS:12", "RESULT:t1:FAIL:007\n",
     "STATUS:TEST_FAIL:t2 RESULT:t2:FAIL:7", "SUMMARY:1:1:0",
     "[12] [INFO] boot", "hello", " \t\n",
     "RESULT:t1:PASS:5 STATUS:TEST_FAIL:t1", "SUMMARY:1:1:0 STATUS:TEST_RUNNING:t2",
     "[12] [INFO] SUMMARY:2:1:1"}

(***************************************************************************)
(* parse_rtt_line.  Scan is what the four searches of one call find in     *)
(* the stripped line; the branches below act on those matches.             *)
(***************************************************************************)
Scan(raw) ==
    LET line == Strip(raw)
    IN  [line |-> line,
         status |-> status_pattern(line),
         result |-> result_pattern(line),
         summary |-> summary_pattern(line),
         log |-> log_pattern(line)]

\* Scan of every line of the model, computed once
AllLines == ProbeLines \cup ApiLines
Scanned == [raw \in AllLines |-> Scan(raw)]

\* the place of a status in the usual order of a test's life
Rank(st) ==
    CASE st = "TEST_INIT" -> 0
      [] st = "TEST_RUNNING" -> 1
      [] st \in {"TEST_PASS", "TEST_FAIL"} -> 2
      [] st = "TEST_COMPLETE" -> 3

\* StatusBranch letting the status of an existing entry only advance
StatusBranch_OnlyAdvances(tr, m, t) ==
    IF m.matched /\ m.token \in TestStatus
    THEN IF m.name \notin DOMAIN tr
         THEN Put(tr, m.name, TestResult(m.name, m.token, t))
         ELSE IF Rank(m.token) >= Rank(tr[m.name].status)
              THEN [tr EXCEPT ![m.name].status = m.token]
              ELSE tr
    ELSE tr

\* StatusBranch resetting the duration of an existing entry with its status
StatusBranch_ClearsDuration(tr, m, t) ==
    IF m.matched /\ m.token \in TestStatus
    THEN IF m.name \notin DOMAIN tr
         THEN Put(tr, m.name, TestResult(m.name, m.token, t))
         ELSE [tr EXCEPT ![m.name].status = m.token, ![m.name].duration_ms = None]
    ELSE tr

\* StatusBranch building a new TestResult on every valid status marker
StatusBranch_Recreates(tr, m, t) ==
    IF m.matched /\ m.token \in TestStatus
    THEN Put(tr, m.name, TestResult(m.name, m.token, t))
    ELSE tr

\* the status branch on status_match m: the registry after it
StatusBranch(tr, m, t) ==
    IF m.matched /\ m.token \in TestStatus
    THEN IF m.name \notin DOMAIN tr
         THEN Put(tr, m.name, TestResult(m.name, m.token, t))
         ELSE [tr EXCEPT ![m.name].status = m.token]
    ELSE tr

\* ResultBranch with the duration assignment left out
ResultBranch_NoDuration(tr, m) ==
    IF m.matched /\ m.name \in DOMAIN tr
    THEN [tr EXCEPT ![m.name].status =
                        IF m.result = "PASS" THEN "TEST_PASS" ELSE "TEST_FAIL"]
    ELSE tr

\* ResultBranch creating the record of a test it does not know
ResultBranch_Creates(tr, m) ==
    IF m.matched
    THEN Put(tr, m.name,
             [name |-> m.name,
              status |-> IF m.result = "PASS" THEN "TEST_PASS" ELSE "TEST_FAIL",
              duration_ms |-> Some(IntOf(m.duration)),
              timestamp |-> IF m.name \in DOMAIN tr THEN tr[m.name].timestamp ELSE 0,
              log_messages |-> <<>>])
    ELSE tr

\* the result branch on result_match m: the registry after it
ResultBranch(tr, m) ==
    IF m.matched /\ m.name \in DOMAIN tr
    THEN [tr EXCEPT ![m.name].status =
                        IF m.result = "PASS" THEN "TEST_PASS" ELSE "TEST_FAIL",
                    ![m.name].duration_ms = Some(IntOf(m.duration))]
    ELSE tr

\* the summary branch on summary_match m: the dict it returns.  success_rate,
\* a float in the code, is kept as the exact quotient <<numerator, denominator>>.
SummaryDict(m) ==
    LET total == IntOf(m.total)
        passed == IntOf(m.passed)
        failed == IntOf(m.failed)
    IN  [total |-> total, passed |-> passed, failed |-> failed,
         success_rate |-> IF total > 0 THEN <<passed * 100, total>> ELSE <<0, 1>>]

\* what parse_rtt_line prints for a non-empty line, in order: the log branch
\* is not reached when the summary branch returns
ParsePrints(sc) ==
    (IF sc.status.matched
     THEN IF sc.status.token \in TestStatus
          THEN <<"TEST_STATUS">> ELSE <<"Unknown status">>
     ELSE <<>>)
    \o (IF sc.result.matched THEN <<"TEST_RESULT">> ELSE <<>>)
    \o (IF sc.summary.matched THEN <<"TEST_SUMMARY">>
        ELSE IF sc.log.matched THEN <<"LOG">> ELSE <<"RTT">>)

\* ParseLog appending before the test for an empty line
ParseLog_BeforeEmptyTest(lb, raw, t) ==
    Append(lb, [timestamp |-> t, raw |-> Scanned[raw].line])

\* self.log_buffer after parse_rtt_line(raw) at clock value t
ParseLog(lb, raw, t) ==
    LET sc == Scanned[raw]
    IN  IF sc.line = "" THEN lb ELSE Append(lb, [timestamp |-> t, raw |-> sc.line])

\* ParseRegistry with the log branch filing the message of a generic log line
\* under every registered test
ParseRegistry_FilesLog(tr, raw, t) ==
    LET sc == Scanned[raw]
        reg == ResultBranch(StatusBranch(tr, sc.status, t), sc.result)
    IN  IF sc.line = "" THEN tr
        ELSE IF sc.log.matched /\ ~sc.summary.matched
             THEN [n \in DOMAIN reg |->
                     [reg[n] EXCEPT !.log_messages = Append(@, sc.log.message)]]
             ELSE reg

\* self.test_results after parse_rtt_line(raw) at clock value t
ParseRegistry(tr, raw, t) ==
    LET sc == Scanned[raw]
    IN  IF sc.line = "" THEN tr
        ELSE ResultBranch(StatusBranch(tr, sc.status, t), sc.result)

\* ParseReturn with the branches chained as if / elif: the summary pattern is
\* not searched once the status or the result pattern matched
ParseReturn_ShortCircuit(raw) ==
    LET sc == Scanned[raw]
    IN  IF sc.line = "" \/ sc.status.matched \/ sc.result.matched THEN None
        ELSE IF sc.summary.matched THEN Some(SummaryDict(sc.summary)) ELSE None

\* what parse_rtt_line(raw) returns
ParseReturn(raw) ==
    LET sc == Scanned[raw]
    IN  IF sc.line = "" THEN None
        ELSE IF sc.summary.matched THEN Some(SummaryDict(sc.summary)) ELSE None

\* the record of one parse_rtt_line call, the k-th call made
ParseCallRecord(k, raw) ==
    [n |-> k, op |-> "parse_rtt_line", arg |-> raw, ret |-> ParseReturn(raw),
     printed |-> IF Scanned[raw].line = "" THEN <<>> ELSE ParsePrints(Scanned[raw])]

(***************************************************************************)
(* check_success_condition over self.success_conditions.                   *)
(***************************************************************************)
check_success_condition(tr) ==
    \/ \E n \in DOMAIN tr : tr[n].status = "TEST_COMPLETE"
    \/ \A n \in DOMAIN tr : tr[n].status = "TEST_PASS"

(***************************************************************************)
(* The state after RTTMonitor.__init__.                                    *)
(***************************************************************************)
Init ==
    /\ test_results = EmptyDict
    /\ log_buffer = <<>>
    /\ process = "none"
    /\ emitted = <<>>
    /\ nread = 0
    /\ pc = "NotStarted"
    /\ outcome = "none"
    /\ start_time = 0
    /\ summary_data = None
    /\ retval = [kind |-> "pending"]
    /\ stop_calls = 0
    /\ killed = FALSE
    /\ now = 0
    /\ call = [n |-> 0, op |-> "none"]

(***************************************************************************)
(* The environment: the clock and the probe bridge process.                *)
(***************************************************************************)

\* the wall clock advances; it is first read when the run starts (start_time)
\* and no more once monitor_until_success has returned
Tick ==
    /\ now < MaxTime
    /\ pc \notin {"NotStarted", "Connecting", "Done"}
    /\ now' = now + 1
    /\ UNCHANGED <<test_results, log_buffer, process, emitted, nread, pc, outcome,
                   start_time, summary_data, retval, stop_calls, killed, call>>

\* the child writes a line to its stdout; what it writes once the loop has
\* left for the finally clause is read by nobody
Emit(l) ==
    /\ process = "alive"
    /\ pc # "Terminal"
    /\ Len(emitted) < MaxEmit
    /\ emitted' = Append(emitted, l)
    /\ UNCHANGED <<test_results, log_buffer, process, nread, pc, outcome,
                   start_time, summary_data, retval, stop_calls, killed, now, call>>

\* the child exits by itself; once the loop has left for the finally clause
\* its exit is the graceful case of StopMonitoring
ProcExit ==
    /\ process = "alive"
    /\ pc # "Terminal"
    /\ process' = "exited"
    /\ UNCHANGED <<test_results, log_buffer, emitted, nread, pc, outcome,
                   start_time, summary_data, retval, stop_calls, killed, now, call>>

(***************************************************************************)
(* monitor_until_success, step by step.                                    *)
(***************************************************************************)

\* the call itself: start_rtt_viewer is entered
Begin ==
    /\ pc = "NotStarted"
    /\ pc' = "Connecting"
    /\ UNCHANGED <<test_results, log_buffer, process, emitted, nread, outcome,
                   start_time, summary_data, retval, stop_calls, killed, now, call>>

\* Popen succeeded: start_rtt_viewer returns True, start_time and summary_data are set
ConnectOk ==
    /\ pc = "Connecting"
    /\ process' = "alive"
    /\ start_time' = now
    /\ summary_data' = None
    /\ pc' = "LoopHead"
    /\ UNCHANGED <<test_results, log_buffer, emitted, nread, outcome,
                   retval, stop_calls, killed, now, call>>

\* ConnectFail with the result of start_rtt_viewer ignored: the run goes on
\* into the loop without a process
ConnectFail_EntersLoop ==
    /\ pc = "Connecting"
    /\ start_time' = now
    /\ summary_data' = None
    /\ pc' = "LoopHead"
    /\ UNCHANGED <<test_results, log_buffer, process, emitted, nread, outcome,
                   retval, stop_calls, killed, now, call>>

\* Popen raised: start_rtt_viewer returns False and monitor_until_success returns False
ConnectFail ==
    /\ pc = "Connecting"
    /\ outcome' = "Error"
    /\ retval' = [kind |-> "False"]
    /\ pc' = "Done"
    /\ UNCHANGED <<test_results, log_buffer, process, emitted, nread,
                   start_time, summary_data, stop_calls, killed, now, call>>

\* the while condition; its else branch is the timeout
CheckDeadline ==
    /\ pc = "LoopHead"
    /\ IF now - start_time < TimeoutTicks
       THEN pc' = "Poll" /\ UNCHANGED outcome
       ELSE pc' = "Terminal" /\ outcome' = "TimedOut"
    /\ UNCHANGED <<test_results, log_buffer, process, emitted, nread,
                   start_time, summary_data, retval, stop_calls, killed, now, call>>

\* self.process.poll()
PollProcess ==
    /\ pc = "Poll"
    /\ IF process = "exited"
       THEN pc' = "Terminal" /\ outcome' = "ProbeTerminated"
       ELSE pc' = "Read" /\ UNCHANGED outcome
    /\ UNCHANGED <<test_results, log_buffer, process, emitted, nread,
                   start_time, summary_data, retval, stop_calls, killed, now, call>>

\* NextSummary assigning whatever parse_rtt_line returned
NextSummary_Unguarded(sd, result) == result

\* summary_data after the loop has looked at what parse_rtt_line returned
NextSummary(sd, result) == IF result # None THEN result ELSE sd

\* ReadLine without the break of the success branch: the loop goes round
ReadLine_NoBreak ==
    /\ pc = "Read"
    /\ nread < Len(emitted)
    /\ LET line == emitted[nread + 1]
       IN  /\ nread' = nread + 1
           /\ test_results' = ParseRegistry(test_results, line, now)
           /\ log_buffer' = ParseLog(log_buffer, line, now)
           /\ call' = ParseCallRecord(call.n + 1, line)
           /\ summary_data' = NextSummary(summary_data, ParseReturn(line))
           /\ pc' = "LoopHead"
    /\ UNCHANGED <<process, emitted, start_time, retval, stop_calls, killed, now,
                   outcome>>

\* readline() returns a line: parse it, keep a summary, check for success
ReadLine ==
    /\ pc = "Read"
    /\ nread < Len(emitted)
    /\ LET line == emitted[nread + 1]
           tr == ParseRegistry(test_results, line, now)
       IN  /\ nread' = nread + 1
           /\ test_results' = tr
           /\ log_buffer' = ParseLog(log_buffer, line, now)
           /\ call' = ParseCallRecord(call.n + 1, line)
           /\ summary_data' = NextSummary(summary_data, ParseReturn(line))
           /\ IF check_success_condition(tr)
              THEN pc' = "Terminal" /\ outcome' = "Succeeded"
              ELSE pc' = "LoopHead" /\ UNCHANGED outcome
    /\ UNCHANGED <<process, emitted, start_time, retval, stop_calls, killed, now>>

\* ReadEof with the success check outside the `if line:` block: it runs on an
\* empty read too
ReadEof_ChecksSuccess ==
    /\ pc = "Read"
    /\ nread = Len(emitted)
    /\ process = "exited"
    /\ IF check_success_condition(test_results)
       THEN pc' = "Terminal" /\ outcome' = "Succeeded"
       ELSE pc' = "LoopHead" /\ UNCHANGED outcome
    /\ UNCHANGED <<test_results, log_buffer, process, emitted, nread,
                   start_time, summary_data, retval, stop_calls, killed, now, call>>

\* readline() returns '' at end of file: the child has exited and every line
\* it wrote has been read; the loop sleeps and goes round
ReadEof ==
    /\ pc = "Read"
    /\ nread = Len(emitted)
    /\ process = "exited"
    /\ pc' = "LoopHead"
    /\ UNCHANGED <<test_results, log_buffer, process, emitted, nread, outcome,
                   start_time, summary_data, retval, stop_calls, killed, now, call>>

\* readline() raises: the except branch breaks out of the loop
ReadError ==
    /\ pc = "Read"
    /\ pc' = "Terminal"
    /\ outcome' = "Error"
    /\ UNCHANGED <<test_results, log_buffer, process, emitted, nread,
                   start_time, summary_data, retval, stop_calls, killed, now, call>>

\* an exception raised outside the inner try (in self.process.poll()) is not
\* caught: it leaves monitor_until_success through the finally
Interrupt ==
    /\ pc = "Poll"
    /\ pc' = "Terminal"
    /\ outcome' = "InternalError"
    /\ UNCHANGED <<test_results, log_buffer, process, emitted, nread,
                   start_time, summary_data, retval, stop_calls, killed, now, call>>

\* the child after terminate() and wait(timeout=5); graceful says whether it
\* exits within the wait.  A child that has exited already stays so.
AfterTerminate(p, graceful) == IF p = "alive" /\ ~graceful THEN "alive" ELSE "exited"

\* StopProcess without the kill() of the except branch
StopProcess_NoKill(p, graceful) == AfterTerminate(p, graceful)

\* the body of stop_monitoring on the child: terminate, wait, and kill() when
\* the wait raised TimeoutExpired
StopProcess(p, graceful) ==
    LET waited == AfterTerminate(p, graceful)
    IN  IF waited = "alive" THEN "exited" ELSE waited

\* the finally clause: stop_monitoring, then the return (or the re-raise)
StopMonitoring ==
    /\ pc = "Terminal"
    /\ \E graceful \in BOOLEAN :
          /\ process' = StopProcess(process, graceful)
          /\ killed' = (AfterTerminate(process, graceful) = "alive")
    /\ stop_calls' = stop_calls + 1
    /\ retval' = IF outcome = "InternalError" THEN [kind |-> "raised"]
                 ELSE [kind |-> "value", value |-> summary_data]
    /\ pc' = "Done"
    /\ UNCHANGED <<test_results, log_buffer, emitted, nread, outcome,
                   start_time, summary_data, now, call>>

Loop ==
    \/ Begin
    \/ ConnectOk
    \/ ConnectFail
    \/ CheckDeadline
    \/ PollProcess
    \/ ReadLine
    \/ ReadEof
    \/ ReadError
    \/ Interrupt
    \/ StopMonitoring

Next ==
    \/ Loop
    \/ Tick
    \/ ProcExit
    \/ \E l \in ProbeLines : Emit(l)

Spec == Init /\ [][Next]_vars

(***************************************************************************)
(* The scheduling of the loop: the interpreter keeps executing the steps   *)
(* that are ready and the clock keeps running.  Nothing obliges the child  *)
(* to write or to exit, nor a read to fail.                                *)
(***************************************************************************)
LoopProgress ==
    \/ Begin
    \/ ConnectOk
    \/ ConnectFail
    \/ CheckDeadline
    \/ PollProcess
    \/ ReadLine
    \/ ReadEof
    \/ StopMonitoring

FairSpec == Spec /\ WF_vars(LoopProgress) /\ WF_vars(Tick)

(***************************************************************************)
(* The monitor used directly: parse_rtt_line, check_success_condition and  *)
(* save_results called in any order on a fresh RTTMonitor.  Each           *)
(* parse_rtt_line call reads the clock one tick after the call before it.  *)
(***************************************************************************)
ParseCall(l) ==
    /\ call.n < MaxCalls
    /\ test_results' = ParseRegistry(test_results, l, now)
    /\ log_buffer' = ParseLog(log_buffer, l, now)
    /\ call' = ParseCallRecord(call.n + 1, l)
    /\ now' = now + 1
    /\ UNCHANGED <<process, emitted, nread, pc, outcome, start_time,
                   summary_data, retval, stop_calls, killed>>

CheckCall ==
    /\ call.n < MaxCalls
    /\ call' = [n |-> call.n + 1, op |-> "check_success_condition",
                ret |-> check_success_condition(test_results)]
    /\ UNCHANGED <<test_results, log_buffer, process, emitted, nread, pc, outcome,
                   start_time, summary_data, retval, stop_calls, killed, now>>

\* sum(1 for r in results.values() if r.status == st), entry by entry
RECURSIVE CountStatus(_, _)
CountStatus(tr, st) ==
    IF DOMAIN tr = {} THEN 0
    ELSE LET n == CHOOSE k \in DOMAIN tr : TRUE
             rest == [k \in DOMAIN tr \ {n} |-> tr[k]]
         IN  (IF tr[n].status = st THEN 1 ELSE 0) + CountStatus(rest, st)

\* output_data with failed_tests counting every test that did not pass
output_data_FailedIsNotPassed(tr, lb) ==
    [test_results |->
        [n \in DOMAIN tr |->
            [name |-> tr[n].name, status |-> tr[n].status,
             duration_ms |-> tr[n].duration_ms, timestamp |-> tr[n].timestamp,
             log_messages |-> tr[n].log_messages]],
     log_buffer |-> lb,
     summary |-> [total_tests |-> Cardinality(DOMAIN tr),
                  passed_tests |-> CountStatus(tr, "TEST_PASS"),
                  failed_tests |-> Cardinality(DOMAIN tr) - CountStatus(tr, "TEST_PASS")]]

\* the dict save_results builds from the registry and the raw log
output_data(tr, lb) ==
    [test_results |->
        [n \in DOMAIN tr |->
            [name |-> tr[n].name, status |-> tr[n].status,
             duration_ms |-> tr[n].duration_ms, timestamp |-> tr[n].timestamp,
             log_messages |-> tr[n].log_messages]],
     log_buffer |-> lb,
     summary |-> [total_tests |-> Cardinality(DOMAIN tr),
                  passed_tests |-> CountStatus(tr, "TEST_PASS"),
                  failed_tests |-> CountStatus(tr, "TEST_FAIL")]]

\* save_results: the dict is built and written out as JSON
SaveCall ==
    /\ call.n < MaxCalls
    /\ call' = [n |-> call.n + 1, op |-> "save_results",
                written |-> output_data(test_results, log_buffer)]
    /\ UNCHANGED <<test_results, log_buffer, process, emitted, nread, pc, outcome,
                   start_time, summary_data, retval, stop_calls, killed, now>>

ApiNext ==
    \/ \E l \in ApiLines : ParseCall(l)
    \/ CheckCall
    \/ SaveCall

ApiSpec == Init /\ [][ApiNext]_vars

(***************************************************************************)
(* Properties.                                                             *)
(***************************************************************************)

\* a step in which parse_rtt_line was called (directly, or by the loop)
ParseStep == call'.n = call.n + 1 /\ call'.op = "parse_rtt_line"

\* the run obtained the process handle
HandleObtained == process # "none"

\* C1: check_success_condition returns true if and only if the registry is
\* non-empty and either some entry is Complete or all entries are Pass; on
\* the empty registry it returns false.
C1_IsSuccessfulIff ==
    call.op = "check_success_condition" =>
        (call.ret <=>
            /\ DOMAIN test_results # {}
            /\ \/ \E n \in DOMAIN test_results : test_results[n].status = "TEST_COMPLETE"
               \/ \A n \in DOMAIN test_results : test_results[n].status = "TEST_PASS")

\* C2: in a run that obtained the process handle, every terminal state is
\* followed by stop_monitoring, which runs exactly once (never before the
\* terminal state, never twice), and after the run the child is not running.
C2_ReleasedExactlyOnce ==
    HandleObtained =>
        /\ pc \in {"LoopHead", "Poll", "Read"} => stop_calls = 0
        /\ pc = "Terminal" => stop_calls = 0 /\ ENABLED StopMonitoring
        /\ pc = "Done" => stop_calls = 1 /\ process = "exited"

\* C2 witness: a run that ended on an uncaught internal error, and one whose
\* child had to be killed, both released once
C2_Witness ==
    /\ pc = "Done"
    /\ outcome = "InternalError"
    /\ killed
    /\ stop_calls = 1
    /\ process = "exited"

\* C3: while the run never ends in another way (no success, the child stays
\* alive, no read error), it eventually ends TimedOut.
C3_EventuallyTimedOut ==
    [](outcome \notin {"Succeeded", "ProbeTerminated", "Error", "InternalError"})
        => <>(outcome = "TimedOut")

ScenarioA == <<"STATUS:TEST_INIT:t1\n", "STATUS:TEST_PASS:t1\n", "SUMMARY:1:1:0\n">>

\* C4: scenario A: when the stream delivers STATUS:TEST_INIT:t1,
\* STATUS:TEST_PASS:t1, SUMMARY:1:1:0 and the run ends Succeeded, the summary
\* line was processed, the registry holds exactly t1 with status Pass and the
\* loop's summary is {total 1, passed 1, failed 0}.
C4_ScenarioA ==
    (emitted = ScenarioA /\ outcome = "Succeeded") =>
        /\ nread = 3
        /\ DOMAIN test_results = {"t1"}
        /\ test_results["t1"].status = "TEST_PASS"
        /\ summary_data # None
        /\ summary_data[1].total = 1
        /\ summary_data[1].passed = 1
        /\ summary_data[1].failed = 0

ScenarioB == <<"STATUS:TEST_RUNNING:t1\n">>

\* C5: scenario B: when the child wrote the single line STATUS:TEST_RUNNING:t1
\* and exited, a run that ends ProbeTerminated has the registry holding
\* exactly t1 with status Running, no duration and no summary.
C5_ScenarioB ==
    (emitted = ScenarioB /\ outcome = "ProbeTerminated") =>
        /\ DOMAIN test_results = {"t1"}
        /\ test_results["t1"].status = "TEST_RUNNING"
        /\ test_results["t1"].duration_ms = None
        /\ summary_data = None

\* the summary of the last summary marker line among lines, None if there is none
RECURSIVE LastSummary(_)
LastSummary(lines) ==
    IF lines = <<>> THEN None
    ELSE LET last == lines[Len(lines)]
         IN  IF Scanned[last].summary.matched
             THEN ParseReturn(last)
             ELSE LastSummary(SubSeq(lines, 1, Len(lines) - 1))

\* the lines the loop has processed
Processed == SubSeq(emitted, 1, nread)

C6_LastSummaryKept ==
    HandleObtained =>
        /\ summary_data = LastSummary(Processed)
        /\ (pc = "Done" /\ outcome \in {"Succeeded", "TimedOut", "ProbeTerminated", "Error"})
              => retval = [kind |-> "value", value |-> LastSummary(Processed)]

\* C6: in a run that entered Monitoring, the summary candidate is at every
\* moment the summary of the last summary marker processed (None if none
\* was), the value returned in each of the four terminal states is that
\* candidate, and a candidate that is present is only replaced by the summary
\* the step's line carries, never cleared.
C6_ReturnsLastSummary ==
    /\ []C6_LastSummaryKept
    /\ [][(summary_data # None) =>
             /\ summary_data' # None
             /\ (summary_data' # summary_data =>
                    ParseStep /\ summary_data' = call'.ret)]_vars

\* C6 witness: a run that processed two different summaries and timed out
\* returned the second
C6_Witness ==
    /\ pc = "Done"
    /\ outcome = "TimedOut"
    /\ Processed = <<"STATUS:TEST_INIT:t1\n", "SUMMARY:1:1:0\n", "SUMMARY:2:1:1\n">>
    /\ retval = [kind |-> "value",
                 value |-> Some([total |-> 2, passed |-> 1, failed |-> 1,
                                 success_rate |-> <<100, 2>>])]

\* the whole line RESULT:<n>:<r>:<d>
ResultLine(n, r, d) == "RESULT:" \o n \o ":" \o r \o ":" \o d

\* every character of raw is white space
IsBlank(raw) == Chars(raw) \subseteq SpaceChars

\* line is raw without its leading and trailing white space
IsStripOf(line, raw) ==
    /\ line # ""
    /\ Ch(line, 1) \notin SpaceChars
    /\ Ch(line, Len(line)) \notin SpaceChars
    /\ \E i \in 1..Len(raw) :
          /\ LitAt(raw, i, line)
          /\ Chars(SubSeq(raw, 1, i - 1)) \subseteq SpaceChars
          /\ Chars(SubSeq(raw, i + Len(line), Len(raw))) \subseteq SpaceChars

\* the step appended exactly one entry to the raw log, for the line raw
LogAppended(raw) ==
    /\ Len(log_buffer') = Len(log_buffer) + 1
    /\ SubSeq(log_buffer', 1, Len(log_buffer)) = log_buffer
    /\ IsStripOf(log_buffer'[Len(log_buffer')].raw, raw)
    /\ log_buffer'[Len(log_buffer')].timestamp = now

\* the line carries a status marker whose token is a TestStatus value
ValidStatus(raw) ==
    LET m == Scanned[raw].status IN m.matched /\ m.token \in TestStatus

\* the line carries a status marker whose token is no TestStatus value
UnknownStatus(raw) ==
    LET m == Scanned[raw].status IN m.matched /\ m.token \notin TestStatus

\* C7: after parse_rtt_line on a line matching RESULT:<n>:PASS:<d> (or
\* FAIL) whose <n> is in the registry, the entry for n has status Pass (or
\* Fail) and duration_ms d; both for the whole-line form of the grammar and
\* for any line in which the result pattern is found.
C7_ResultApplied ==
    [][ParseStep =>
          LET raw == call'.arg
              m == Scanned[raw].result
          IN  /\ (m.matched /\ m.name \in DOMAIN test_results) =>
                    /\ test_results'[m.name].status =
                          (IF m.result = "PASS" THEN "TEST_PASS" ELSE "TEST_FAIL")
                    /\ test_results'[m.name].duration_ms = Some(IntOf(m.duration))
              /\ \A n \in DOMAIN test_results :
                    \A r \in {"PASS", "FAIL"} :
                       \A d \in {<<"12", 12>>, <<"007", 7>>, <<"7", 7>>} :
                          raw \in {ResultLine(n, r, d[1]), ResultLine(n, r, d[1]) \o "\n"} =>
                             /\ test_results'[n].status = "TEST_" \o r
                             /\ test_results'[n].duration_ms = Some(d[2])]_vars

\* C7 witness: t1, registered by a status marker, took Pass and 12 from
\* RESULT:t1:PASS:12
C7_Witness ==
    /\ call.op = "parse_rtt_line"
    /\ call.n = 2
    /\ call.arg = "RESULT:t1:PASS:12"
    /\ log_buffer[1].raw = "STATUS:TEST_INIT:t1"
    /\ test_results["t1"].status = "TEST_PASS"
    /\ test_results["t1"].duration_ms = Some(12)

\* C8 as stated: after parse_rtt_line on a line matching RESULT:<n>:FAIL:<d>
\* whose <n> is absent from the registry, the registry is unchanged and the
\* line is appended to the raw log.
C8_UnknownResultLeavesRegistry ==
    [][ParseStep =>
          LET raw == call'.arg
              m == Scanned[raw].result
          IN  (m.matched /\ m.result = "FAIL" /\ m.name \notin DOMAIN test_results) =>
                 /\ test_results' = test_results
                 /\ LogAppended(raw)]_vars

\* C8 amended: after parse_rtt_line on a line matching RESULT:<n>:FAIL:<d>
\* whose <n> is absent from the registry, the line is appended to the raw
\* log and, unless the line also carries a status marker with a valid token,
\* the registry is unchanged.
C8_UnknownResultDropped ==
    [][ParseStep =>
          LET raw == call'.arg
              m == Scanned[raw].result
          IN  (m.matched /\ m.result = "FAIL" /\ m.name \notin DOMAIN test_results) =>
                 /\ LogAppended(raw)
                 /\ ~ValidStatus(raw) => test_results' = test_results]_vars

\* C8 witness: RESULT:t1:FAIL:007 arrived when t1 was not registered: it is
\* in the raw log and the registry has no t1
C8_Witness ==
    /\ call.op = "parse_rtt_line"
    /\ call.n = 2
    /\ call.arg = "RESULT:t1:FAIL:007\n"
    /\ log_buffer[Len(log_buffer)].raw = "RESULT:t1:FAIL:007"
    /\ DOMAIN test_results = {"t2"}

\* C9: when the loop processes a line whose status marker has an unknown
\* token, no error ends the run, the line is appended to the raw log, the
\* status marker changes nothing in the registry (no key is added, and
\* nothing changes at all unless the line also carries a result marker) and
\* monitoring continues with the next iteration.
C9_UnknownStatusNonFatal ==
    [][(ParseStep /\ UnknownStatus(call'.arg)) =>
          /\ outcome' # "Error"
          /\ LogAppended(call'.arg)
          /\ DOMAIN test_results' = DOMAIN test_results
          /\ ~Scanned[call'.arg].result.matched => test_results' = test_results
          /\ pc' = "LoopHead"]_vars

\* C10: a parse_rtt_line call on a line that is not blank appends exactly one
\* entry, the stripped line, at the end of the raw log, whatever the line
\* matches; a call on a blank line appends nothing, returns nothing, prints
\* nothing and leaves the registry as it was; nothing else touches the log.
C10_RawLogPerLine ==
    [][IF ParseStep
       THEN IF IsBlank(call'.arg)
            THEN /\ log_buffer' = log_buffer
                 /\ test_results' = test_results
                 /\ call'.ret = None
                 /\ call'.printed = <<>>
            ELSE LogAppended(call'.arg)
       ELSE log_buffer' = log_buffer]_vars

\* C10 witness: a blank line arrived after two other lines, one of them
\* matching no marker: the log holds those two, in order
C10_Witness ==
    /\ call.op = "parse_rtt_line"
    /\ call.n = 3
    /\ call.arg = " \t\n"
    /\ Len(log_buffer) = 2
    /\ log_buffer[1].raw = "hello"
    /\ log_buffer[2].raw = "STATUS:TEST_PASS:t1"

\* the caller was handed no summary: False, or None
NoSummaryReported ==
    \/ retval = [kind |-> "False"]
    \/ retval = [kind |-> "value", value |-> None]

\* C11: when acquiring the probe-bridge process fails, the run goes from
\* Connecting directly to Error without entering Monitoring: no line is read
\* or parsed, the registry and the raw log stay empty and the caller is
\* handed no summary.  Without the handle the run is never in Monitoring.
C11_ConnectionFailure ==
    /\ [](~HandleObtained => pc \in {"NotStarted", "Connecting", "Done"})
    /\ [][(pc = "Connecting" /\ ~HandleObtained') =>
             (pc' = "Done" /\ outcome' = "Error")]_vars
    /\ []((pc = "Done" /\ ~HandleObtained) =>
             /\ outcome = "Error"
             /\ nread = 0
             /\ call.n = 0
             /\ test_results = EmptyDict
             /\ log_buffer = <<>>
             /\ NoSummaryReported)

\* C11 witness: a run whose connection failed has ended, with no process
C11_Witness ==
    /\ pc = "Done"
    /\ process = "none"
    /\ outcome = "Error"
    /\ retval.kind = "False"

\* C13: the registry is append-only in its keys: a key once present stays,
\* every entry's name is its key, an entry's name and creation timestamp never
\* change, and a key appears only in a parse_rtt_line call on a line whose
\* valid status marker names it, stamped with the time of that call; a valid
\* status marker for an absent name always creates the entry.
C13_RegistryAppendOnly ==
    /\ [](\A n \in DOMAIN test_results : test_results[n].name = n)
    /\ [][
           /\ \A n \in DOMAIN test_results :
                /\ n \in DOMAIN test_results'
                /\ test_results'[n].name = test_results[n].name
                /\ test_results'[n].timestamp = test_results[n].timestamp
           /\ \A n \in (DOMAIN test_results') \ (DOMAIN test_results) :
                /\ ParseStep
                /\ ValidStatus(call'.arg)
                /\ Scanned[call'.arg].status.name = n
                /\ test_results'[n].timestamp = now
           /\ (ParseStep /\ ValidStatus(call'.arg)) =>
                Scanned[call'.arg].status.name \in DOMAIN test_results']_vars

\* C13 witness: t1, created by the first call, went through a second status
\* marker and a result marker and still carries the time of the first call
C13_Witness ==
    /\ call.op = "parse_rtt_line"
    /\ call.n = 3
    /\ call.arg = "RESULT:t1:FAIL:007\n"
    /\ Len(log_buffer) = 3
    /\ log_buffer[1].raw = "STATUS:TEST_INIT:t1"
    /\ log_buffer[2].raw = "STATUS:TEST_PASS:t1"
    /\ DOMAIN test_results = {"t1"}
    /\ test_results["t1"].timestamp = 0
    /\ test_results["t1"].status = "TEST_FAIL"
    /\ now = 3

\* what the four searches find in a stripped line, as the raw log keeps it
ScannedLine ==
    [line \in {Scanned[r].line : r \in AllLines} |->
        Scanned[CHOOSE r \in AllLines : Scanned[r].line = line]]

\* every test name a status or result marker of the model's lines carries
MarkerNames ==
    {Scanned[r].status.name : r \in {q \in AllLines : Scanned[q].status.matched}}
    \cup {Scanned[r].result.name : r \in {q \in AllLines : Scanned[q].result.matched}}

\* the status the markers of the logged lines give test n, in the order they
\* were applied (line by line, and within a line the status marker before the
\* result marker): that of the most recent valid status marker for n or
\* result marker for n that found n registered; None while no valid status
\* marker has named n
RECURSIVE StatusAfter(_, _)
StatusAfter(log, n) ==
    IF log = <<>> THEN None
    ELSE LET sc == ScannedLine[log[Len(log)].raw]
             before == StatusAfter(SubSeq(log, 1, Len(log) - 1), n)
             named == /\ sc.status.matched
                      /\ sc.status.token \in TestStatus
                      /\ sc.status.name = n
         IN  IF sc.result.matched /\ sc.result.name = n /\ (named \/ before # None)
             THEN Some("TEST_" \o sc.result.result)
             ELSE IF named THEN Some(sc.status.token) ELSE before

\* C14: the last received status wins: after any sequence of processed
\* lines, a test is registered exactly when a valid status marker has named
\* it, and its status is the one carried by the most recent valid status
\* marker or applied result marker for its name, also when that status is
\* earlier in the usual order than the one it replaces.
C14_LastStatusWins ==
    \A n \in MarkerNames :
        StatusAfter(log_buffer, n) =
            IF n \in DOMAIN test_results THEN Some(test_results[n].status) ELSE None

\* C14 witness: t1 was Pass, with a duration, and a later status marker took
\* it back to Init
C14_Witness ==
    /\ call.op = "parse_rtt_line"
    /\ call.n = 3
    /\ call.arg = "STATUS:TEST_INIT:t1"
    /\ log_buffer[1].raw = "STATUS:TEST_PASS:t1"
    /\ log_buffer[2].raw = "RESULT:t1:PASS:12"
    /\ test_results["t1"].status = "TEST_INIT"
    /\ test_results["t1"].duration_ms = Some(12)

\* the line is not blank and carries no status, result or summary marker
\* (it matches the generic grammar only, or no grammar at all)
NoMarker(raw) ==
    LET sc == Scanned[raw]
    IN  /\ sc.line # ""
        /\ ~sc.status.matched
        /\ ~sc.result.matched
        /\ ~sc.summary.matched

\* C15: a parse_rtt_line call on a line that matches only the generic grammar,
\* or no grammar at all, leaves the registry exactly as it was, returns
\* nothing and appends one entry to the raw log; so the same line fed twice
\* appends two entries and leaves the registry identical both times.
C15_GenericLeavesRegistry ==
    [][(ParseStep /\ NoMarker(call'.arg)) =>
          /\ test_results' = test_results
          /\ LogAppended(call'.arg)
          /\ call'.ret = None]_vars

\* C15 witness: the same generic line was fed twice after t1 was registered:
\* two more log entries, and the registry is as the status marker left it
C15_Witness ==
    /\ call.op = "parse_rtt_line"
    /\ call.n = 3
    /\ call.arg = "[12] [INFO] boot"
    /\ Len(log_buffer) = 3
    /\ log_buffer[1].raw = "STATUS:TEST_INIT:t1"
    /\ log_buffer[2].raw = "[12] [INFO] boot"
    /\ log_buffer[3].raw = "[12] [INFO] boot"
    /\ test_results = Put(EmptyDict, "t1", TestResult("t1", "TEST_INIT", 0))

\* the step processes a line that carries a non-fatal condition: a status
\* marker with an unknown token, or a result marker for a test that is not
\* registered
NonFatalStep ==
    /\ ParseStep
    /\ \/ UnknownStatus(call'.arg)
       \/ /\ Scanned[call'.arg].result.matched
          /\ Scanned[call'.arg].result.name \notin DOMAIN test_results'

\* a read on the output stream fails: the run enters Error in a step that
\* parses nothing
ReadErrorStep == HandleObtained /\ outcome = "none" /\ outcome' = "Error" /\ ~ParseStep

\* the part of C12 about read errors: the failing read leaves the registry,
\* the raw log and the summary candidate as they were, and the run that ended
\* in Error after the handle was obtained was torn down once and returned
\* the candidate
C12_ReadErrorPreserves ==
    /\ [][ReadErrorStep =>
             /\ test_results' = test_results
             /\ log_buffer' = log_buffer
             /\ summary_data' = summary_data
             /\ nread' = nread
             /\ pc' = "Terminal"]_vars
    /\ []((HandleObtained /\ outcome = "Error") =>
             /\ pc = "Terminal" => stop_calls = 0 /\ ENABLED StopMonitoring
             /\ pc = "Done" =>
                   /\ stop_calls = 1
                   /\ process = "exited"
                   /\ retval = [kind |-> "value", value |-> summary_data])

\* the part of C12 about escalation: a line with a non-fatal condition never
\* takes the run to an error
C12_NonFatalNoError ==
    [][NonFatalStep => outcome' \notin {"Error", "InternalError"}]_vars

\* C12: a read error on the output stream while Monitoring takes the run to
\* Error with the registry, the raw log and the last observed summary as
\* they were before the failing read, and the teardown still runs; and no
\* non-fatal condition ends the run early: a line with a malformed marker or
\* an unknown test reference raises no error and, changing nothing in the
\* registry, leaves the run in Monitoring.
C12_OnlyReadErrorEscalates ==
    /\ C12_ReadErrorPreserves
    /\ C12_NonFatalNoError
    /\ [][(NonFatalStep /\ test_results' = test_results) => pc' = "LoopHead"]_vars

\* x is printed, and where
Has(seq, x) == \E i \in DOMAIN seq : seq[i] = x
Pos(seq, x) == CHOOSE i \in DOMAIN seq : seq[i] = x

\* the effects of the status, result and summary markers of the line of this
\* step, each produced whatever else the line matches, and printed in the
\* order status, result, summary or log
MarkerEffects ==
    LET sc == Scanned[call'.arg]
        pr == call'.printed
    IN  /\ ValidStatus(call'.arg) =>
              /\ sc.status.name \in DOMAIN test_results'
              /\ Has(pr, "TEST_STATUS")
              /\ Pos(pr, "TEST_STATUS") = 1
        /\ UnknownStatus(call'.arg) =>
              /\ Has(pr, "Unknown status")
              /\ Pos(pr, "Unknown status") = 1
        /\ sc.result.matched =>
              /\ Has(pr, "TEST_RESULT")
              /\ Pos(pr, "TEST_RESULT") = (IF sc.status.matched THEN 2 ELSE 1)
              /\ sc.result.name \in DOMAIN test_results' =>
                    /\ test_results'[sc.result.name].status = "TEST_" \o sc.result.result
                    /\ test_results'[sc.result.name].duration_ms # None
        /\ sc.summary.matched =>
              /\ Has(pr, "TEST_SUMMARY")
              /\ Pos(pr, "TEST_SUMMARY") = Len(pr)
              /\ call'.ret # None
              /\ call'.ret[1].total = IntOf(sc.summary.total)
              /\ call'.ret[1].passed = IntOf(sc.summary.passed)
              /\ call'.ret[1].failed = IntOf(sc.summary.failed)
        /\ ~sc.summary.matched => call'.ret = None
        /\ Len(pr) = (IF sc.status.matched THEN 1 ELSE 0)
                       + (IF sc.result.matched THEN 1 ELSE 0) + 1

\* C16 as stated: all four grammars are tested against every non-empty line
\* in the fixed order and none suppresses a later one: the effects of every
\* matching grammar are produced, the generic-log classification of a line
\* that also carries a summary included.
C16_AllFourTested ==
    [][(ParseStep /\ ~IsBlank(call'.arg)) =>
          /\ MarkerEffects
          /\ Scanned[call'.arg].log.matched => Has(call'.printed, "LOG")]_vars

\* C16 amended: the status, result and summary grammars are tested against
\* every non-empty line in that order and none suppresses a later one of the
\* three; the generic-log grammar is tested only when the summary grammar did
\* not match: a line with a summary marker gets neither the generic-log
\* classification nor the passthrough, a line without one gets exactly one of
\* the two, last.
C16_SummaryEndsTheCall ==
    [][(ParseStep /\ ~IsBlank(call'.arg)) =>
          LET sc == Scanned[call'.arg]
              pr == call'.printed
          IN  /\ MarkerEffects
              /\ sc.summary.matched => ~Has(pr, "LOG") /\ ~Has(pr, "RTT")
              /\ ~sc.summary.matched =>
                    pr[Len(pr)] = (IF sc.log.matched THEN "LOG" ELSE "RTT")]_vars

\* C16 witness: a line with a status marker and a summary marker produced
\* both effects, and the next line, a generic log line carrying a summary
\* marker, returned its summary and was not classified as a log line
C16_Witness ==
    /\ call.op = "parse_rtt_line"
    /\ call.n = 2
    /\ call.arg = "[12] [INFO] SUMMARY:2:1:1"
    /\ call.printed = <<"TEST_SUMMARY">>
    /\ call.ret # None
    /\ call.ret[1].total = 2
    /\ log_buffer[1].raw = "SUMMARY:1:1:0 STATUS:TEST_RUNNING:t2"
    /\ test_results = Put(EmptyDict, "t2", TestResult("t2", "TEST_RUNNING", 0))

\* the state of the run: Monitoring is the loop; a terminal state is the one
\* the loop was left in, until the finally clause has run; Error is a read
\* error or an exception that leaves the function; Stopped is the function
\* having returned
RunState ==
    CASE pc = "NotStarted" -> "NotStarted"
      [] pc = "Connecting" -> "Connecting"
      [] pc \in {"LoopHead", "Poll", "Read"} -> "Monitoring"
      [] pc = "Terminal" -> (IF outcome = "InternalError" THEN "Error" ELSE outcome)
      [] pc = "Done" -> "Stopped"

TerminalStates == {"Succeeded", "TimedOut", "ProbeTerminated", "Error"}

\* the transitions of the run; a failed acquisition passes through Error to
\* the end of the run in one step
RunTransitions ==
    {<<"NotStarted", "Connecting">>, <<"Connecting", "Monitoring">>,
     <<"Connecting", "Stopped">>}
    \cup {<<"Monitoring", t>> : t \in TerminalStates}
    \cup {<<t, "Stopped">> : t \in TerminalStates}

RECURSIVE DurationAfter(_, _)
DurationAfter(log, n) ==
    IF log = <<>> THEN None
    ELSE LET sc == ScannedLine[log[Len(log)].raw]
         IN  IF sc.result.matched /\ sc.result.name = n /\ StatusAfter(log, n) # None
             THEN Some(IntOf(sc.result.duration))
             ELSE DurationAfter(SubSeq(log, 1, Len(log) - 1), n)

\* the step applies a result marker to test n
ResultApplied(n) ==
    /\ ParseStep
    /\ Scanned[call'.arg].result.matched
    /\ Scanned[call'.arg].result.name = n

\* C18: duration_ms is set only by an applied result marker: in every state
\* the duration of an entry is that of the most recent result marker for its
\* name processed while the entry existed, absent if there was none; and a
\* step that applies no result marker to a test (a status marker above all)
\* leaves its duration as it was, absent for an entry it creates.
C18_DurationFromResultOnly ==
    /\ [](\A n \in DOMAIN test_results :
             test_results[n].duration_ms = DurationAfter(log_buffer, n))
    /\ [][\A n \in DOMAIN test_results' :
             ~ResultApplied(n) =>
                test_results'[n].duration_ms =
                    (IF n \in DOMAIN test_results
                     THEN test_results[n].duration_ms ELSE None)]_vars

\* C18 witness: t1 took 12 from a first result marker and 7 from a second,
\* and the status marker that followed left the 7
C18_Witness ==
    /\ call.op = "parse_rtt_line"
    /\ call.n = 4
    /\ call.arg = "STATUS:TEST_PASS:t1\n"
    /\ log_buffer[1].raw = "STATUS:TEST_INIT:t1"
    /\ log_buffer[2].raw = "RESULT:t1:PASS:12"
    /\ log_buffer[3].raw = "RESULT:t1:FAIL:007"
    /\ test_results["t1"].status = "TEST_PASS"
    /\ test_results["t1"].duration_ms = Some(7)

\* a step in which save_results was called
SaveStep == call'.n = call.n + 1 /\ call'.op = "save_results"

\* C19: the report save_results builds is a pure aggregation of the registry
\* and the raw log: total_tests is the number of entries, passed_tests the
\* number with status Pass, failed_tests the number with status Fail (so
\* their sum is at most total_tests), every per-test record is in it with
\* its five fields, the raw log is in it whole and in order, and building it
\* changes neither the registry nor the raw log.
C19_ReportIsAggregation ==
    [][SaveStep =>
          LET rep == call'.written
              passed == {n \in DOMAIN test_results : test_results[n].status = "TEST_PASS"}
              failed == {n \in DOMAIN test_results : test_results[n].status = "TEST_FAIL"}
          IN  /\ rep.summary.total_tests = Cardinality(DOMAIN test_results)
              /\ rep.summary.passed_tests = Cardinality(passed)
              /\ rep.summary.failed_tests = Cardinality(failed)
              /\ rep.summary.passed_tests + rep.summary.failed_tests
                    <= rep.summary.total_tests
              /\ DOMAIN rep.test_results = DOMAIN test_results
              /\ \A n \in DOMAIN test_results :
                    /\ rep.test_results[n].name = n
                    /\ rep.test_results[n].status = test_results[n].status
                    /\ rep.test_results[n].duration_ms = test_results[n].duration_ms
                    /\ rep.test_results[n].timestamp = test_results[n].timestamp
                    /\ rep.test_results[n].log_messages = test_results[n].log_messages
              /\ rep.log_buffer = log_buffer
              /\ test_results' = test_results
              /\ log_buffer' = log_buffer]_vars

\* C19 witness: a report built from three tests, one Pass, one Fail and one
\* Complete, and a raw log of three lines
C19_Witness ==
    /\ call.op = "save_results"
    /\ call.n = 4
    /\ call.written.summary = [total_tests |-> 3, passed_tests |-> 1, failed_tests |-> 1]
    /\ DOMAIN call.written.test_results = {"t1", "t2", "t2 RESULT:t2:FAIL:7"}
    /\ call.written.test_results["t2"].status = "TEST_COMPLETE"
    /\ Len(call.written.log_buffer) = 3
    /\ call.written.log_buffer[1].raw = "STATUS:TEST_PASS:t1"
    /\ call.written.log_buffer = log_buffer

\* after the line of this step some test is Complete or every test is Pass
SuccessAfterStep ==
    \/ \E n \in DOMAIN test_results' : test_results'[n].status = "TEST_COMPLETE"
    \/ \A n \in DOMAIN test_results' : test_results'[n].status = "TEST_PASS"

====
